---------------------------- MODULE Spec2Model ----------------------------
(***************************************************************************)
(* Locator (src/Locator.py): resolution of one anatomical label per        *)
(* contact pair from prioritized annotation sources, and boolean region    *)
(* masks over the resolved labels.                                         *)
(*                                                                         *)
(* Python strings are sequences of one-character strings, so that strip,   *)
(* lower, split and concatenation are computed character by character.     *)
(* A Python value is a record [tag, val]: tag "str" carries the characters,*)
(* tag "None" and tag "float" (a pandas missing value) carry none.         *)
(* Python's 0-based index ri is the 1-based index ri+1 here.               *)
(***************************************************************************)
EXTENDS Naturals, Sequences, FiniteSets

VARIABLES
  reader,      \* the data source handed to __init__, or NoReader
  pc,          \* position of the constructor / state of the instance
  pairs,       \* __LoadLocations' local `pairs` (first load of 'pairs')
  locations,   \* __LoadLocations' local `locations`, then self.__locations
  loads,       \* number of reader.load calls made so far
  caught,      \* what the bare `except: pass` of lines 127-128 swallowed
  taxonomy,    \* the alias lists set by __init__ (self.*_regions)
  result,      \* the last query call and the value it returned
  held,        \* the list object a caller keeps from All(), if any
  noted        \* a (call, value) the caller wrote down earlier

vars == <<reader, pc, pairs, locations, loads, caught, taxonomy, result,
          held, noted>>

(***************************************************************************)
(* Bounds                                                                  *)
(***************************************************************************)
MaxPairs == 2

(***************************************************************************)
(* Python values and strings                                               *)
(***************************************************************************)
Str(cs) == [tag |-> "str", val |-> cs]

None == [tag |-> "None", val |-> <<>>]

NaN == [tag |-> "float", val |-> <<>>]

isinstance_str(v) == v.tag = "str"

\* == on two cell values: a float nan differs from everything, itself included
PyEq(a, b) == IF a.tag = "float" \/ b.tag = "float" THEN FALSE ELSE a = b

Whitespace == {" ", "\t", "\n"}

LowerMap ==
  [A |-> "a", B |-> "b", C |-> "c", D |-> "d", E |-> "e", F |-> "f",
   G |-> "g", H |-> "h", I |-> "i", J |-> "j", K |-> "k", L |-> "l",
   M |-> "m", N |-> "n", O |-> "o", P |-> "p", Q |-> "q", R |-> "r",
   S |-> "s", T |-> "t", U |-> "u", V |-> "v", W |-> "w", X |-> "x",
   Y |-> "y", Z |-> "z"]

lower(cs) ==
  [k \in 1..Len(cs) |-> IF cs[k] \in DOMAIN LowerMap THEN LowerMap[cs[k]]
                        ELSE cs[k]]

RECURSIVE lstrip(_)
lstrip(cs) ==
  IF cs # <<>> /\ Head(cs) \in Whitespace THEN lstrip(Tail(cs)) ELSE cs

RECURSIVE rstrip(_)
rstrip(cs) ==
  IF cs # <<>> /\ cs[Len(cs)] \in Whitespace
  THEN rstrip(SubSeq(cs, 1, Len(cs) - 1)) ELSE cs

strip(cs) == rstrip(lstrip(cs))

\* str.split(sep): the pieces between the occurrences of sep, at least one
RECURSIVE split(_, _)
split(cs, sep) ==
  IF \E k \in 1..Len(cs) : cs[k] = sep
  THEN LET k == CHOOSE j \in 1..Len(cs) :
                  cs[j] = sep /\ \A h \in 1..(j - 1) : cs[h] # sep
       IN <<SubSeq(cs, 1, k - 1)>> \o split(SubSeq(cs, k + 1, Len(cs)), sep)
  ELSE <<cs>>

(***************************************************************************)
(* __init__: the alias lists (lines 44-80)                                 *)
(***************************************************************************)
hippocampus_regions ==
  <<
    <<"C","A","1">>,
    <<"C","A","2">>,
    <<"C","A","3">>,
    <<"C","A","4">>,
    <<"H","i","p","p","o","c","a","m","p","a","l">>,
    <<"H","i","p","p","o","c","a","m","p","u","s">>,
    <<"S","u","b">>,
    <<"D","G">>,
    <<"b","a","3","5">>,
    <<"b","a","3","5">>,
    <<"\"","d","g","\"">>,
    <<"\"","c","a","1","\"">>,
    <<"\"","s","u","b","\"">>,
    <<"\"","b","a","3","5","\"">>,
    <<"\"","b","a","3","5","\"">>
  >>

\* the MTL aliases without the hippocampus aliases spread into them
mtl_regions_own ==
  <<
    <<"p","r","c">>, <<"e","c">>, <<"p","h","c">>, <<"a","m","y">>,
    <<"e","n","t","o","r","h","i","n","a","l">>, <<"e","r","c">>
  >>

mtl_regions ==
  hippocampus_regions \o <<
    <<"p","r","c">>,
    <<"e","c">>,
    <<"p","h","c">>,
    <<"m","t","l"," ","w","m">>,
    <<"a","m","y">>,
    <<"p","a","r","a","h","i","p","p","o","c","a","m","p","a","l">>,
    <<"e","n","t","o","r","h","i","n","a","l">>,
    <<"t","e","m","p","o","r","a","l","p","o","l","e">>,
    <<"a","m","y","g","d","a","l","a">>,
    <<"e","n","t"," ","e","n","t","o","r","h","i","n","a","l"," ","a","r","e","a">>,
    <<"h","i","p","p","o","c","a","m","p","u","s">>,
    <<"p","h","g"," ","p","a","r","a","h","i","p","p","o","c","a","m","p","a","l"," ","g","y","r","u","s">>,
    <<"t","m","p"," ","t","e","m","p","o","r","a","l"," ","p","o","l","e">>,
    <<"\"","e","r","c","\"">>,
    <<"\"","p","h","c","\"">>,
    <<"e","r","c">>
  >>

ltc_regions ==
  <<
    <<"m","i","d","d","l","e"," ","t","e","m","p","o","r","a","l"," ","g","y","r","u","s">>,
    <<"s","t","g">>,
    <<"m","t","g">>,
    <<"i","t","g">>,
    <<"i","n","f","e","r","i","o","r"," ","t","e","m","p","o","r","a","l"," ","g","y","r","u","s">>,
    <<"s","u","p","e","r","i","o","r"," ","t","e","m","p","o","r","a","l"," ","g","y","r","u","s">>,
    <<"t","c">>,
    <<"b","a","n","k","s","s","t","s">>,
    <<"m","i","d","d","l","e","t","e","m","p","o","r","a","l">>,
    <<"i","n","f","e","r","i","o","r","t","e","m","p","o","r","a","l">>,
    <<"s","u","p","e","r","i","o","r","t","e","m","p","o","r","a","l">>,
    <<"i","t","g"," ","i","n","f","e","r","i","o","r"," ","t","e","m","p","o","r","a","l"," ","g","y","r","u","s">>,
    <<"m","t","g"," ","m","i","d","d","l","e"," ","t","e","m","p","o","r","a","l"," ","g","y","r","u","s">>,
    <<"s","t","g"," ","s","u","p","e","r","i","o","r"," ","t","e","m","p","o","r","a","l"," ","g","y","r","u","s">>
  >>

temporal_regions ==
  mtl_regions \o ltc_regions \o <<
    <<"f","u","s","i","f","o","r","m"," ","g","y","r","u","s"," ","w","m">>,
    <<"f","u","s","i","f","o","r","m">>,
    <<"t","r","a","n","s","v","e","r","s","e","t","e","m","p","o","r","a","l">>
  >>

pfc_regions ==
  <<
    <<"c","a","u","d","a","l"," ","m","i","d","d","l","e"," ","f","r","o","n","t","a","l"," ","c","o","r","t","e","x">>,
    <<"d","l","p","f","c">>,
    <<"p","r","e","c","e","n","t","r","a","l"," ","g","y","r","u","s">>,
    <<"p","r","e","c","e","n","t","r","a","l"," ","g","y","r","u","s">>,
    <<"s","u","p","e","r","i","o","r"," ","f","r","o","n","t","a","l"," ","g","y","r","u","s">>,
    <<"m","f","g"," ","m","i","d","d","l","e"," ","f","r","o","n","t","a","l"," ","g","y","r","u","s">>,
    <<"t","r","i","f","g"," ","t","r","i","a","n","g","u","l","a","r"," ","p","a","r","t"," ","o","f"," ","t","h","e"," ","i","n","f","e","r","i","o","r"," ","f","r","o","n","t","a","l"," ","g","y","r","u","s">>,
    <<"c","a","u","d","a","l","m","i","d","d","l","e","f","r","o","n","t","a","l">>,
    <<"f","r","o","n","t","a","l","p","o","l","e">>,
    <<"l","a","t","e","r","a","l","o","r","b","i","t","o","f","r","o","n","t","a","l">>,
    <<"m","e","d","i","a","l","o","r","b","i","t","o","f","r","o","n","t","a","l">>,
    <<"p","a","r","s","o","p","e","r","c","u","l","a","r","i","s">>,
    <<"p","a","r","s","o","r","b","i","t","a","l","i","s">>,
    <<"p","a","r","s","t","r","i","a","n","g","u","l","a","r","i","s">>,
    <<"r","o","s","t","r","a","l","m","i","d","d","l","e","f","r","o","n","t","a","l">>,
    <<"s","u","p","e","r","i","o","r","f","r","o","n","t","a","l">>
  >>

cingulate_regions ==
  <<
    <<"m","c","g">>,
    <<"a","c","g">>,
    <<"p","c","g">>,
    <<"c","a","u","d","a","l","a","n","t","e","r","i","o","r","c","i","n","g","u","l","a","t","e">>,
    <<"i","s","t","h","m","u","s","c","i","n","g","u","l","a","t","e">>,
    <<"p","o","s","t","e","r","i","o","r","c","i","n","g","u","l","a","t","e">>,
    <<"r","o","s","t","r","a","l","a","n","t","e","r","i","o","r","c","i","n","g","u","l","a","t","e">>
  >>

parietal_regions ==
  <<
    <<"s","u","p","r","a","m","a","r","g","i","n","a","l"," ","g","y","r","u","s">>,
    <<"s","u","p","r","a","m","a","r","g","i","n","a","l"," ","g","y","r","u","s">>,
    <<"i","n","f","e","r","i","o","r","p","a","r","i","e","t","a","l">>,
    <<"p","o","s","t","c","e","n","t","r","a","l">>,
    <<"p","r","e","c","u","n","e","u","s">>,
    <<"s","u","p","e","r","i","o","r","p","a","r","i","e","t","a","l">>,
    <<"s","u","p","r","a","m","a","r","g","i","n","a","l">>
  >>

Taxonomy ==
  [hippocampus |-> hippocampus_regions, mtl |-> mtl_regions,
   ltc |-> ltc_regions, temporal |-> temporal_regions,
   pfc |-> pfc_regions, cingulate |-> cingulate_regions,
   parietal |-> parietal_regions]

(***************************************************************************)
(* __LoadLocations (lines 86-135)                                          *)
(***************************************************************************)
Sentinels ==
  { <<"u","n","k","n","o","w","n">>, <<"m","i","s","c">>,
    <<"N","o","n","e">>, <<"n","a","n">>, <<>> }

\* SetIfValid testing the sentinels on the untrimmed string
SetIfValidUntrimmedTest(locs, reg, ri) ==
  IF ~isinstance_str(reg) THEN locs
  ELSE IF reg.val \in Sentinels THEN locs
  ELSE [locs EXCEPT ![ri] = Str(strip(reg.val))]

\* SetIfValid(reg, ri): the locations list after the call
SetIfValid(locs, reg, ri) ==
  IF ~isinstance_str(reg) THEN locs
  ELSE LET r == strip(reg.val)
       IN IF r \in Sentinels THEN locs
          ELSE [locs EXCEPT ![ri] = Str(r)]

\* the loop without the `continue` of lines 98-99
RECURSIVE UpdateLoopOverwrite(_, _, _)
UpdateLoopOverwrite(locs, column, ri) ==
  IF ri > Len(locs) THEN locs
  ELSE UpdateLoopOverwrite(SetIfValid(locs, column[ri], ri), column, ri + 1)

\* the for loop of UpdateLocations from index ri on
RECURSIVE UpdateLoop(_, _, _)
UpdateLoop(locs, column, ri) ==
  IF ri > Len(locs) THEN locs
  ELSE IF locs[ri] # None THEN UpdateLoop(locs, column, ri + 1)
  ELSE UpdateLoop(SetIfValid(locs, column[ri], ri), column, ri + 1)

\* UpdateLocations(regionlabel): the locations list after the call
UpdateLocations(tbl, locs, regionlabel) ==
  IF regionlabel \in DOMAIN tbl.columns
  THEN UpdateLoop(locs, tbl.columns[regionlabel], 1)
  ELSE locs

\* the loop adopting the first contact's region without line 124's test
RECURSIVE WholeBrainLoopNoEquality(_, _, _, _)
WholeBrainLoopNoEquality(locs, labels, whbr, ri) ==
  IF ri > Len(locs) THEN [locs |-> locs, exc |-> "none"]
  ELSE IF locs[ri] # None
  THEN WholeBrainLoopNoEquality(locs, labels, whbr, ri + 1)
  ELSE
    LET label == labels[ri] IN
    IF ~isinstance_str(label)
    THEN [locs |-> locs, exc |-> "AttributeError"]
    ELSE
      LET spl == split(label.val, "-") IN
      IF spl[1] \notin DOMAIN whbr
      THEN WholeBrainLoopNoEquality(locs, labels, whbr, ri + 1)
      ELSE IF Len(spl) < 2
      THEN [locs |-> locs, exc |-> "IndexError"]
      ELSE IF spl[2] \notin DOMAIN whbr
      THEN WholeBrainLoopNoEquality(locs, labels, whbr, ri + 1)
      ELSE WholeBrainLoopNoEquality(SetIfValid(locs, whbr[spl[1]], ri),
                                    labels, whbr, ri + 1)

\* The for loop of lines 118-126 from index ri on.  SetIfValid writes into
\* the list in place, so an exception at index ri leaves the entries written
\* before it: the loop yields the list and the exception, if any.
RECURSIVE WholeBrainLoop(_, _, _, _)
WholeBrainLoop(locs, labels, whbr, ri) ==
  IF ri > Len(locs) THEN [locs |-> locs, exc |-> "none"]
  ELSE IF locs[ri] # None THEN WholeBrainLoop(locs, labels, whbr, ri + 1)
  ELSE
    LET label == labels[ri] IN
    IF ~isinstance_str(label)
    THEN [locs |-> locs, exc |-> "AttributeError"]     \* label.split
    ELSE
      LET spl == split(label.val, "-") IN
      IF spl[1] \notin DOMAIN whbr
      THEN WholeBrainLoop(locs, labels, whbr, ri + 1)
      ELSE IF Len(spl) < 2
      THEN [locs |-> locs, exc |-> "IndexError"]       \* spl[1]
      ELSE IF spl[2] \notin DOMAIN whbr
      THEN WholeBrainLoop(locs, labels, whbr, ri + 1)
      ELSE IF PyEq(whbr[spl[1]], whbr[spl[2]])
      THEN WholeBrainLoop(SetIfValid(locs, whbr[spl[1]], ri),
                          labels, whbr, ri + 1)
      ELSE WholeBrainLoop(locs, labels, whbr, ri + 1)

\* the try block working on a copy that is dropped when anything raises
WholeBrainStepAtomic(rd, locs) ==
  IF ~rd.localization.ok
  THEN [locs |-> locs, exc |-> "load localization", loads |-> 1]
  ELSE IF ~rd.localization.has_whole_brain
  THEN [locs |-> locs, exc |-> "KeyError", loads |-> 1]
  ELSE IF ~rd.pairs_again.ok
  THEN [locs |-> locs, exc |-> "load pairs", loads |-> 2]
  ELSE IF Len(rd.pairs_again.label) # Len(locs)
  THEN [locs |-> locs, exc |-> "label mismatch", loads |-> 2]
  ELSE LET r == WholeBrainLoop(locs, rd.pairs_again.label,
                               rd.localization.whole_brain, 1)
       IN [locs |-> IF r.exc = "none" THEN r.locs ELSE locs,
           exc |-> r.exc, loads |-> 2]

\* The try block of lines 110-126: the locations list when the block is
\* left, the exception the except clause swallowed, and the loads it made.
WholeBrainStep(rd, locs) ==
  IF ~rd.localization.ok
  THEN [locs |-> locs, exc |-> "load localization", loads |-> 1]
  ELSE IF ~rd.localization.has_whole_brain
  THEN [locs |-> locs, exc |-> "KeyError", loads |-> 1]
  ELSE IF ~rd.pairs_again.ok
  THEN [locs |-> locs, exc |-> "load pairs", loads |-> 2]
  ELSE IF Len(rd.pairs_again.label) # Len(locs)
  THEN [locs |-> locs, exc |-> "label mismatch", loads |-> 2]
  ELSE LET r == WholeBrainLoop(locs, rd.pairs_again.label,
                               rd.localization.whole_brain, 1)
       IN [locs |-> r.locs, exc |-> r.exc, loads |-> 2]

\* line 133 written as a filter: the non-strings are dropped
RECURSIVE PostProcessFiltered(_)
PostProcessFiltered(locs) ==
  IF locs = <<>> THEN <<>>
  ELSE IF isinstance_str(Head(locs))
  THEN <<Str(strip(Head(locs).val))>> \o PostProcessFiltered(Tail(locs))
  ELSE PostProcessFiltered(Tail(locs))

\* line 133
PostProcess(locs) ==
  [k \in 1..Len(locs) |->
     IF isinstance_str(locs[k]) THEN Str(strip(locs[k].val)) ELSE None]

(***************************************************************************)
(* Queries (lines 138-310)                                                 *)
(*                                                                         *)
(* A `regions` argument is [kind, val]: kind "list" with a sequence of     *)
(* strings, kind "str" with the one string given in place of a list, kind  *)
(* "None" with nothing.                                                    *)
(***************************************************************************)
Range(s) == {s[k] : k \in 1..Len(s)}

\* `if isinstance(regions, str): regions = [regions]`
AsList(regions) ==
  IF regions.kind = "str" THEN <<regions.val[1]>> ELSE regions.val

StrArg(cs) == [kind |-> "str", val |-> <<cs>>]

ListArg(seq) == [kind |-> "list", val |-> seq]

\* All() handing out self.__locations itself
AllShared(locs) == [list |-> locs, shares |-> TRUE]

\* All(): a new list object with the entries of self.__locations
All(locs) == [list |-> [k \in 1..Len(locs) |-> locs[k]], shares |-> FALSE]

\* Matching without the lower() of lines 152-153
MatchingCaseSensitive(regions, locs) ==
  LET rs == AsList(regions)
      valid == [k \in 1..Len(rs) |-> strip(rs[k])]
  IN [k \in 1..Len(locs) |->
        IF isinstance_str(locs[k])
        THEN strip(locs[k].val) \in Range(valid)
        ELSE FALSE]

Matching(regions, locs) ==
  LET rs == AsList(regions)
      valid == [k \in 1..Len(rs) |-> strip(lower(rs[k]))]
  IN [k \in 1..Len(locs) |->
        IF isinstance_str(locs[k])
        THEN strip(lower(locs[k].val)) \in Range(valid)
        ELSE FALSE]

LeftPrefix == <<"L","e","f","t"," ">>

RightPrefix == <<"R","i","g","h","t"," ">>

Prefixed(prefix, rs) == [k \in 1..Len(rs) |-> prefix \o rs[k]]

Regions(regions, locs) ==
  IF regions.kind = "None" THEN [k \in 1..Len(locs) |-> TRUE]
  ELSE LET rs == AsList(regions)
           bothsides == rs \o Prefixed(LeftPrefix, rs)
                           \o Prefixed(RightPrefix, rs)
       IN Matching(ListArg(bothsides), locs)

\* LeftRegions with the prefix of RightRegions
LeftRegionsRightPrefix(regions, locs) ==
  Matching(ListArg(Prefixed(RightPrefix, AsList(regions))), locs)

LeftRegions(regions, locs) ==
  Matching(ListArg(Prefixed(LeftPrefix, AsList(regions))), locs)

RightRegions(regions, locs) ==
  Matching(ListArg(Prefixed(RightPrefix, AsList(regions))), locs)

Groups ==
  {"hippocampus", "mtl", "ltc", "temporal", "pfc", "cingulate", "parietal"}

\* Hippocampus(), LeftHippocampus(), ... RightParietal()
Named(side, group, tax, locs) ==
  IF side = "Left" THEN LeftRegions(ListArg(tax[group]), locs)
  ELSE IF side = "Right" THEN RightRegions(ListArg(tax[group]), locs)
  ELSE Regions(ListArg(tax[group]), locs)

(***************************************************************************)
(* Inputs: the strings the data source and the callers supply              *)
(***************************************************************************)
t_unknown_sp == <<" ","u","n","k","n","o","w","n">>   \* ' unknown'

t_CA1_sp == <<" ","C","A","1"," ">>   \* ' CA1 '

t_misc_nl == <<"m","i","s","c","\n">>   \* 'misc\n'

t_Left_prc == <<"L","e","f","t"," ","p","r","c">>   \* 'Left prc'

t_None == <<"N","o","n","e">>   \* 'None'

t_insula_sp == <<"i","n","s","u","l","a"," ">>   \* 'insula '

t_empty == <<>>   \* ''

t_Right_STG_tab == <<"\t","R","i","g","h","t"," ","S","T","G">>   \* '\tRight STG'

t_fusiform_sp == <<"f","u","s","i","f","o","r","m"," ">>   \* 'fusiform '

t_precuneus == <<"p","r","e","c","u","n","e","u","s">>   \* 'precuneus'

t_nan_sp == <<"n","a","n"," ">>   \* 'nan '

t_A1 == <<"A","1">>   \* 'A1'

t_A2 == <<"A","2">>   \* 'A2'

t_B1 == <<"B","1">>   \* 'B1'

t_S1 == <<"S","1">>   \* 'S1'

t_S2 == <<"S","2">>   \* 'S2'

t_A1_A2 == <<"A","1","-","A","2">>   \* 'A1-A2'

t_A1_B1 == <<"A","1","-","B","1">>   \* 'A1-B1'

t_A1_Z9 == <<"A","1","-","Z","9">>   \* 'A1-Z9'

t_Z9_A1 == <<"Z","9","-","A","1">>   \* 'Z9-A1'

t_S1_S2 == <<"S","1","-","S","2">>   \* 'S1-S2'

t_Z9 == <<"Z","9">>   \* 'Z9'

t_CA1 == <<"C","A","1">>   \* 'CA1'

t_ca1_sp == <<" ","c","a","1"," ">>   \* ' ca1 '

t_PRC == <<"P","R","C">>   \* 'PRC'

t_Left_CA1 == <<"L","e","f","t"," ","C","A","1">>   \* 'Left CA1'

t_left_ca1 == <<"l","e","f","t"," ","c","a","1">>   \* 'left ca1'

t_Right_CA1 == <<"R","i","g","h","t"," ","C","A","1">>   \* 'Right CA1'

t_CA == <<"C","A">>   \* 'CA'

t_Right_stg == <<"R","i","g","h","t"," ","s","t","g">>   \* 'Right stg'

t_zzz == <<"z","z","z">>   \* 'zzz'

Columns == {"stein.region", "das.region", "mni.region", "ind.region"}

\* per column: a missing value, a sentinel and a usable label
Cells ==
  [stein |-> {NaN, Str(t_unknown_sp), Str(t_CA1_sp)},
   das   |-> {None, Str(t_misc_nl), Str(t_Left_prc)},
   mni   |-> {NaN, Str(t_None), Str(t_insula_sp)},
   ind   |-> {NaN, Str(t_empty), Str(t_Right_STG_tab)}]

\* localization.loc['contacts']['atlases.whole_brain']
WholeBrainMap ==
  [c \in {t_A1, t_A2, t_B1, t_S1, t_S2} |->
     IF c \in {t_A1, t_A2} THEN Str(t_fusiform_sp)
     ELSE IF c = t_B1 THEN Str(t_precuneus)
     ELSE Str(t_nan_sp)]

Row(st, da, mn, nd, lb) ==
  [stein |-> st, das |-> da, mni |-> mn, ind |-> nd, label |-> lb]

\* a pair no source says anything about
MissingRow == Row(NaN, None, NaN, NaN, Str(t_A1_B1))

ColumnKey(c) ==
  IF c = "stein.region" THEN "stein" ELSE IF c = "das.region" THEN "das"
  ELSE IF c = "mni.region" THEN "mni" ELSE "ind"

\* the 'pairs' table with the given rows and the given region columns
Table(rows, cols) ==
  [ok |-> TRUE,
   columns |-> [c \in cols |-> [k \in 1..Len(rows) |-> rows[k][ColumnKey(c)]]],
   label |-> [k \in 1..Len(rows) |-> rows[k].label]]

LoadFails == [ok |-> FALSE, columns |-> <<>>, label |-> <<>>]

RowSeqs(Rows) == UNION {[1..n -> Rows] : n \in 0..MaxPairs}

Tables(Rows, ColumnSets) ==
  {Table(rows, cols) : rows \in RowSeqs(Rows), cols \in ColumnSets}

LocalizationOk ==
  [ok |-> TRUE, has_whole_brain |-> TRUE, whole_brain |-> WholeBrainMap]

LocalizationVariants ==
  { LocalizationOk,
    [ok |-> FALSE, has_whole_brain |-> FALSE, whole_brain |-> <<>>],
    [ok |-> TRUE, has_whole_brain |-> FALSE, whole_brain |-> <<>>] }

\* What the second reader.load('pairs') (line 115) gives for a table: the
\* same labels, one label more, or an exception.
Reload(tbl, how) ==
  IF how = "same" THEN [ok |-> TRUE, label |-> tbl.label]
  ELSE IF how = "longer"
  THEN [ok |-> TRUE, label |-> Append(tbl.label, Str(t_A1_A2))]
  ELSE [ok |-> FALSE, label |-> <<>>]

NoReader ==
  [given |-> FALSE, pairs |-> LoadFails,
   localization |-> [ok |-> FALSE, has_whole_brain |-> FALSE,
                     whole_brain |-> <<>>],
   pairs_again |-> [ok |-> FALSE, label |-> <<>>]]

Reader(tbl, loc, again) ==
  [given |-> TRUE, pairs |-> tbl, localization |-> loc, pairs_again |-> again]

\* a data source whose 'pairs' cannot be loaded at all
BrokenReader ==
  Reader(LoadFails, LocalizationOk, [ok |-> FALSE, label |-> <<>>])

\* data sources that answer both loads alike and have the localization
SoundReaders(Rows, ColumnSets) ==
  {Reader(tbl, LocalizationOk, Reload(tbl, "same")) :
     tbl \in Tables(Rows, ColumnSets)}

\* data sources of which at most one of the localization and the second
\* 'pairs' load goes wrong
Faults ==
  {<<loc, "same">> : loc \in LocalizationVariants}
  \cup {<<LocalizationOk, how>> : how \in {"same", "longer", "fails"}}

FaultyReaders(Rows, ColumnSets) ==
  {Reader(tbl, f[1], Reload(tbl, f[2])) :
     tbl \in Tables(Rows, ColumnSets), f \in Faults}

(***************************************************************************)
(* State machine                                                           *)
(***************************************************************************)
NoArg == [kind |-> "None", val |-> <<>>]

\* after_write: the call was made after the caller wrote into a list
\* that All() had returned
NoResult ==
  [call |-> [op |-> "", arg |-> NoArg], value |-> <<>>, after_write |-> FALSE]

NoList == [kept |-> FALSE, list |-> <<>>, shares |-> FALSE]

InitFrom(Readers) ==
  /\ reader \in Readers
  /\ pc = "new"
  /\ pairs = LoadFails
  /\ locations = <<>>
  /\ loads = 0
  /\ caught = "none"
  /\ taxonomy = Taxonomy
  /\ result = NoResult
  /\ held = NoList
  /\ noted = NoResult

\* a first load whose failure is swallowed, leaving an empty table
FirstLoadAbsorbed(rd) ==
  [raises |-> FALSE,
   pairs |-> IF rd.pairs.ok THEN rd.pairs
             ELSE [ok |-> TRUE, columns |-> <<>>, label |-> <<>>]]

\* line 103: the table, or the exception reader.load('pairs') raises
FirstLoad(rd) == [raises |-> ~rd.pairs.ok, pairs |-> rd.pairs]

\* __init__ lines 82-83 and __LoadLocations lines 103-105
Begin ==
  /\ pc = "new"
  /\ IF ~reader.given
     THEN /\ pc' = "taxonomy only"
          /\ UNCHANGED <<pairs, locations, loads>>
     ELSE LET r == FirstLoad(reader) IN
          /\ loads' = loads + 1
          /\ IF r.raises
             THEN /\ pc' = "raised"
                  /\ UNCHANGED <<pairs, locations>>
             ELSE /\ pc' = "stein.region"
                  /\ pairs' = r.pairs
                  /\ locations' = [k \in 1..Len(r.pairs.label) |-> None]
  /\ UNCHANGED <<reader, caught, taxonomy, result, held, noted>>

\* one UpdateLocations call of lines 107-108, 130-131
Update(regionlabel, next) ==
  /\ pc = regionlabel
  /\ locations' = UpdateLocations(pairs, locations, regionlabel)
  /\ pc' = next
  /\ UNCHANGED <<reader, pairs, loads, caught, taxonomy, result, held, noted>>

UpdateStein == Update("stein.region", "das.region")

UpdateDas == Update("das.region", "whole brain")

\* lines 110-128
WholeBrain ==
  /\ pc = "whole brain"
  /\ LET r == WholeBrainStep(reader, locations) IN
       /\ locations' = r.locs
       /\ caught' = r.exc
       /\ loads' = loads + r.loads
  /\ pc' = "mni.region"
  /\ UNCHANGED <<reader, pairs, taxonomy, result, held, noted>>

UpdateMni == Update("mni.region", "ind.region")

UpdateInd == Update("ind.region", "post")

\* lines 133-135 and the assignment of line 83
Finish ==
  /\ pc = "post"
  /\ locations' = PostProcess(locations)
  /\ pc' = "ready"
  /\ UNCHANGED <<reader, pairs, loads, caught, taxonomy, result, held, noted>>

Construct ==
  \/ Begin
  \/ UpdateStein
  \/ UpdateDas
  \/ WholeBrain
  \/ UpdateMni
  \/ UpdateInd
  \/ Finish

\* a query returns: nothing but the caller's view changes
Answer(op, arg, value) ==
  /\ pc = "ready"
  /\ result' = [call |-> [op |-> op, arg |-> arg], value |-> value,
                after_write |-> Str(t_zzz) \in Range(held.list)]
  /\ UNCHANGED <<reader, pc, pairs, locations, loads, caught, taxonomy>>

CallAll ==
  LET r == All(locations) IN
  /\ Answer("All", NoArg, r.list)
  /\ held' = [kept |-> TRUE, list |-> r.list, shares |-> r.shares]
  /\ UNCHANGED noted

CallMatching(Args) ==
  \E a \in Args :
    /\ Answer("Matching", a, Matching(a, locations))
    /\ UNCHANGED <<held, noted>>

CallRegions(Args) ==
  \E a \in Args \cup {NoArg} :
    /\ Answer("Regions", a, Regions(a, locations))
    /\ UNCHANGED <<held, noted>>

CallLeftRegions(Args) ==
  \E a \in Args :
    /\ Answer("LeftRegions", a, LeftRegions(a, locations))
    /\ UNCHANGED <<held, noted>>

CallRightRegions(Args) ==
  \E a \in Args :
    /\ Answer("RightRegions", a, RightRegions(a, locations))
    /\ UNCHANGED <<held, noted>>

CallNamed(Gs) ==
  \E side \in {"", "Left", "Right"}, g \in Gs :
    /\ Answer(side \o g, NoArg, Named(side, g, taxonomy, locations))
    /\ UNCHANGED <<held, noted>>

Query(Args, Gs) ==
  \/ CallAll
  \/ CallMatching(Args)
  \/ CallRegions(Args)
  \/ CallLeftRegions(Args)
  \/ CallRightRegions(Args)
  \/ CallNamed(Gs)

\* The caller writes into the list All() gave it (once): an entry replaced,
\* or an entry appended.  The write reaches self.__locations only if the two
\* are one list object.
CallerModifies ==
  /\ pc = "ready"
  /\ held.kept
  /\ Str(t_zzz) \notin Range(held.list)
  /\ \E new \in {[held.list EXCEPT ![k] = Str(t_zzz)] :
                   k \in 1..Len(held.list)}
                \cup {Append(held.list, Str(t_zzz))} :
       /\ held' = [held EXCEPT !.list = new]
       /\ locations' = IF held.shares THEN new ELSE locations
  /\ UNCHANGED <<reader, pc, pairs, loads, caught, taxonomy, result, noted>>

\* the caller writes down the answer it just got, to compare later ones
CallerNotes ==
  /\ pc = "ready"
  /\ result.call.op # ""
  /\ noted = NoResult
  /\ noted' = result
  /\ UNCHANGED <<reader, pc, pairs, locations, loads, caught, taxonomy,
                 result, held>>

(***************************************************************************)
(* Specifications                                                          *)
(***************************************************************************)
AllColumns == {Columns}

Sources == {"stein", "das", "label", "mni", "ind"}

\* the label decides what the whole-brain map holds for the pair: no shared
\* region, a shared usable region, a shared sentinel
SourceValues(s) ==
  IF s = "label" THEN {Str(t_A1_B1), Str(t_A1_A2), Str(t_S1_S2)} ELSE Cells[s]

\* every combination of the values of the five sources
FullRows ==
  {Row(st, da, mn, nd, lb) :
     st \in Cells.stein, da \in Cells.das, mn \in Cells.mni,
     nd \in Cells.ind, lb \in SourceValues("label")}

\* rows in which two sources take every combination of their values and
\* the other three say nothing
PairwiseRows ==
  UNION {{[MissingRow EXCEPT ![s] = vs, ![t] = vt] :
            vs \in SourceValues(s), vt \in SourceValues(t)} :
         s \in Sources, t \in Sources}

OnePairRows == IF MaxPairs > 0 THEN {<<r>> : r \in FullRows} ELSE {}

\* tables over the pairwise rows from a sound data source, and one-pair
\* tables over every row from a sound or faulty one
InitColumns ==
  InitFrom(SoundReaders(PairwiseRows, AllColumns)
           \cup {Reader(Table(rows, Columns), f[1],
                         Reload(Table(rows, Columns), f[2])) :
                   rows \in OnePairRows, f \in Faults}
           \cup {NoReader, BrokenReader})

SpecColumns == InitColumns /\ [][Construct]_vars

Labels ==
  {Str(t_A1_A2), Str(t_A1_B1), Str(t_A1_Z9), Str(t_Z9_A1), Str(t_S1_S2),
   Str(t_Z9), Str(t_A1), NaN}

WholeBrainRows ==
  {Row(st, NaN, mn, NaN, lb) :
     st \in {NaN, Str(t_CA1_sp)}, mn \in {NaN, Str(t_insula_sp)},
     lb \in Labels}

InitWholeBrain ==
  InitFrom(FaultyReaders(WholeBrainRows, {{"stein.region", "mni.region"}})
           \cup {NoReader, BrokenReader})

SpecWholeBrain == InitWholeBrain /\ [][Construct]_vars

\* what callers pass as `regions`
QueryArgs ==
  {StrArg(t_CA1), ListArg(<<t_ca1_sp, t_PRC>>), ListArg(<<t_CA1, t_Left_CA1>>),
   ListArg(<<t_CA, t_PRC>>), ListArg(<<>>)}

QueryRows ==
  {Row(st, NaN, NaN, NaN, Str(t_A1_A2)) :
     st \in {NaN, Str(t_CA1_sp), Str(t_left_ca1), Str(t_Right_CA1),
             Str(t_Left_prc), Str(t_Right_stg)}}

InitQuery ==
  InitFrom(FaultyReaders(QueryRows, {{"stein.region"}})
           \cup {NoReader, BrokenReader})

\* the caller makes one call on the finished instance
FirstQuery == result.call.op = "" /\ Query(QueryArgs, Groups)

NextQuery == Construct \/ FirstQuery

SpecQuery == InitQuery /\ [][NextQuery]_vars

\* Any number of calls, the caller keeping what All() returned, writing
\* into it and comparing answers.
PureRows ==
  {Row(st, NaN, NaN, NaN, Str(t_A1_A2)) :
     st \in {NaN, Str(t_CA1_sp), Str(t_Left_prc)}}

Init ==
  InitFrom(SoundReaders(PureRows, {{"stein.region"}})
           \cup {NoReader, BrokenReader})

Next ==
  \/ Construct
  \/ Query({ListArg(<<t_ca1_sp, t_PRC>>)}, {"hippocampus"})
  \/ CallerModifies
  \/ CallerNotes

Spec == Init /\ [][Next]_vars

(***************************************************************************)
(* Vocabulary of the claims, stated without the operators above            *)
(***************************************************************************)
Blank(c) == c = " " \/ c = "\t" \/ c = "\n"

\* cs without its leading and trailing blanks
Trim(cs) ==
  LET inked == {k \in 1..Len(cs) : ~Blank(cs[k])}
  IN IF inked = {} THEN <<>>
     ELSE SubSeq(cs, CHOOSE k \in inked : \A h \in inked : k <= h,
                     CHOOSE k \in inked : \A h \in inked : h <= k)

Uppers ==
  <<"A","B","C","D","E","F","G","H","I","J","K","L","M",
    "N","O","P","Q","R","S","T","U","V","W","X","Y","Z">>

Lowers ==
  <<"a","b","c","d","e","f","g","h","i","j","k","l","m",
    "n","o","p","q","r","s","t","u","v","w","x","y","z">>

Lowered(cs) ==
  [k \in 1..Len(cs) |->
     IF \E u \in 1..Len(Uppers) : Uppers[u] = cs[k]
     THEN Lowers[CHOOSE u \in 1..Len(Uppers) : Uppers[u] = cs[k]]
     ELSE cs[k]]

\* case and outer whitespace ignored
Norm(cs) == Trim(Lowered(cs))

NoInformation ==
  { <<"u","n","k","n","o","w","n">>, <<"m","i","s","c">>,
    <<"N","o","n","e">>, <<"n","a","n">>, <<>> }

\* a candidate that may become a location
Usable(v) == v.tag = "str" /\ Trim(v.val) \notin NoInformation

NumPairs == Len(reader.pairs.label)

\* the cell of pair i in a region column of the table given to the resolver
CellOf(column, i) ==
  IF column \in DOMAIN reader.pairs.columns
  THEN reader.pairs.columns[column][i] ELSE None

HasDash(cs) == \E k \in 1..Len(cs) : cs[k] = "-"

FirstDash(cs) ==
  CHOOSE k \in 1..Len(cs) : cs[k] = "-" /\ \A h \in 1..Len(cs) : cs[h] = "-" => k <= h

ContactA(cs) == SubSeq(cs, 1, FirstDash(cs) - 1)

ContactB(cs) == SubSeq(cs, FirstDash(cs) + 1, Len(cs))

WholeBrainOf(rd) ==
  IF rd.localization.ok /\ rd.localization.has_whole_brain
  THEN rd.localization.whole_brain ELSE <<>>

\* pair i is labeled 'a-b' with a and b both keys of the whole-brain map
BothContactsKnown(i) ==
  LET lb == reader.pairs.label[i] IN
  /\ lb.tag = "str"
  /\ HasDash(lb.val)
  /\ ContactA(lb.val) \in DOMAIN WholeBrainOf(reader)
  /\ ContactB(lb.val) \in DOMAIN WholeBrainOf(reader)

\* the region the two contacts of pair i share in the whole-brain map
SharedRegion(i) ==
  LET lb == reader.pairs.label[i]
      map == WholeBrainOf(reader)
  IN IF BothContactsKnown(i) /\ map[ContactA(lb.val)] = map[ContactB(lb.val)]
     THEN map[ContactA(lb.val)] ELSE None

\* the first usable candidate of a list, trimmed; absent when there is none
FirstUsable(cands) ==
  IF \E k \in 1..Len(cands) : Usable(cands[k])
  THEN LET k == CHOOSE j \in 1..Len(cands) :
                  Usable(cands[j]) /\ \A h \in 1..(j - 1) : ~Usable(cands[h])
       IN Str(Trim(cands[k].val))
  ELSE None

AbsentBeforeWholeBrain(i) ==
  ~Usable(CellOf("stein.region", i)) /\ ~Usable(CellOf("das.region", i))

\* the whole-brain step fails before it looks at any pair
FailsBeforeLoop ==
  \/ ~reader.localization.ok
  \/ ~reader.localization.has_whole_brain
  \/ ~reader.pairs_again.ok
  \/ Len(reader.pairs_again.label) # NumPairs

\* looking at pair i raises: its label is not a string, or it has no '-'
\* and is itself a key of the whole-brain map
LabelFails(i) ==
  LET lb == reader.pairs.label[i] IN
  \/ lb.tag # "str"
  \/ (~HasDash(lb.val) /\ lb.val \in DOMAIN WholeBrainOf(reader))

FailsAt(i) == AbsentBeforeWholeBrain(i) /\ LabelFails(i)

\* the whole-brain step gets to pair i
Reached(i) == ~FailsBeforeLoop /\ \A j \in 1..(i - 1) : ~FailsAt(j)

StepFails == FailsBeforeLoop \/ \E i \in 1..NumPairs : FailsAt(i)

SourceSteps ==
  {"stein.region", "das.region", "whole brain", "mni.region", "ind.region"}

\* what a source offers for pair i: the cell of its column, or the shared
\* region if the whole-brain step gets to the pair
Candidate(step, i) ==
  IF step # "whole brain" THEN CellOf(step, i)
  ELSE IF Reached(i) THEN SharedRegion(i) ELSE None

(***************************************************************************)
(* C1                                                                      *)
(***************************************************************************)
ResolvedInOrder ==
  \A i \in 1..NumPairs :
    /\ All(locations).list[i] =
         FirstUsable(<<Candidate("stein.region", i),
                       Candidate("das.region", i),
                       Candidate("whole brain", i),
                       Candidate("mni.region", i),
                       Candidate("ind.region", i)>>)
    /\ Usable(CellOf("stein.region", i)) =>
         All(locations).list[i] = Str(Trim(CellOf("stein.region", i).val))

NeverOverwritten ==
  \A i \in DOMAIN locations :
    locations[i] # None =>
      i \in DOMAIN locations' /\ locations'[i] = locations[i]

\* C1: the sources are applied in the order stein.region, das.region,
\* whole-brain map, mni.region, ind.region; a location once set is never
\* overwritten by a later step, so All()[i] is the first usable candidate in
\* that order, and a usable stein.region cell (trimmed) whatever the other
\* sources hold.
C1_FirstSourceWins ==
  [](pc = "ready" => ResolvedInOrder) /\ [][NeverOverwritten]_vars

C1_Witness ==
  /\ pc = "ready"
  /\ \E i \in 1..NumPairs :
       /\ Usable(CellOf("stein.region", i))
       /\ Usable(CellOf("das.region", i))
       /\ Reached(i)
       /\ Usable(SharedRegion(i))
       /\ Usable(CellOf("ind.region", i))
       /\ CellOf("stein.region", i).val # Trim(CellOf("stein.region", i).val)
       /\ All(locations).list[i] = Str(Trim(CellOf("stein.region", i).val))

(***************************************************************************)
(* C2                                                                      *)
(***************************************************************************)
NoSentinelStored ==
  /\ \A i \in DOMAIN locations :
       locations[i] = None
       \/ (locations[i].tag = "str" /\ locations[i].val \notin NoInformation)
  /\ pc = "ready" =>
       \A i \in 1..NumPairs :
         All(locations).list[i] = None
         \/ All(locations).list[i].val \notin NoInformation

RejectedStaysAbsent ==
  \A i \in DOMAIN locations :
    (pc \in SourceSteps /\ locations[i] = None) =>
      locations'[i] = IF Usable(Candidate(pc, i))
                      THEN Str(Trim(Candidate(pc, i).val)) ELSE None

\* C2: at every source (the four columns and the whole-brain map) a
\* candidate that is not a string, or that trimmed is one of 'unknown',
\* 'misc', 'None', 'nan', '', leaves a still absent pair absent, and the
\* next source is then tried on it; no stored location and no element of
\* All() is one of those five strings.
C2_SentinelRejection == []NoSentinelStored /\ [][RejectedStaysAbsent]_vars

C2_Witness ==
  /\ pc = "ready"
  /\ \E i \in 1..NumPairs :
       /\ CellOf("stein.region", i).tag = "str"
       /\ ~Usable(CellOf("stein.region", i))
       /\ CellOf("das.region", i).tag = "str"
       /\ ~Usable(CellOf("das.region", i))
       /\ Reached(i)
       /\ SharedRegion(i).tag = "str"
       /\ ~Usable(SharedRegion(i))
       /\ Usable(CellOf("mni.region", i))
       /\ All(locations).list[i] = Str(Trim(CellOf("mni.region", i).val))

(***************************************************************************)
(* C3                                                                      *)
(***************************************************************************)
FirstPairsLoadFailed == reader.given /\ ~reader.pairs.ok /\ loads >= 1

SecondPairsLoadFailed == caught = "load pairs"

\* C3 as stated: whenever a load of 'pairs' fails during construction the
\* failure leaves the constructor and no instance with locations exists.
C3_AnyPairsLoadFatal ==
  (FirstPairsLoadFailed \/ SecondPairsLoadFailed) =>
    (pc = "raised" /\ locations = <<>>)

\* C3 amended: a failure of the first load of 'pairs' (line 103) leaves the
\* constructor: nothing is caught, no locations are built, nothing further
\* is loaded, and only that failure ends construction; a failure of the
\* second load of 'pairs' (line 115) is swallowed like a failure of the
\* localization and construction goes on.
C3_FirstPairsLoadFatal ==
  /\ FirstPairsLoadFailed =>
       (pc = "raised" /\ locations = <<>> /\ caught = "none" /\ loads = 1)
  /\ pc = "raised" => FirstPairsLoadFailed
  /\ (SecondPairsLoadFailed \/ caught = "load localization") =>
       pc \in {"mni.region", "ind.region", "post", "ready"}

C3_Witness == pc = "raised" /\ FirstPairsLoadFailed

(***************************************************************************)
(* C9, C10                                                                 *)
(***************************************************************************)
WithoutWholeBrain(i) ==
  FirstUsable(<<CellOf("stein.region", i), CellOf("das.region", i),
                CellOf("mni.region", i), CellOf("ind.region", i)>>)

\* C9 as stated: when anything fails in the whole-brain step, every pair is
\* resolved as if the step were not there.
C9_AllOrNothing ==
  (pc = "ready" /\ caught # "none") =>
    \A i \in 1..NumPairs : All(locations).list[i] = WithoutWholeBrain(i)

\* C9 amended: a failure in the whole-brain step never leaves the
\* constructor.  If it happens before the loop over the pairs (localization
\* missing or malformed, second load of 'pairs' failing or of another
\* length) the step contributes nothing.  If it happens at a pair (label not
\* a string, or a label without '-' that is a key of the map), the pairs
\* before it keep the shared region the step gave them and that pair and
\* the later ones get nothing from the step.  Pairs still absent are then
\* resolved by mni.region and ind.region.
C9_FailureKeepsEarlierPairs ==
  /\ (reader.given /\ reader.pairs.ok) => pc # "raised"
  /\ pc \in {"mni.region", "ind.region", "post", "ready"} =>
       (caught # "none" <=> StepFails)
  /\ (pc = "ready" /\ caught # "none") =>
       \A i \in 1..NumPairs :
         All(locations).list[i] =
           FirstUsable(<<CellOf("stein.region", i), CellOf("das.region", i),
                         IF Reached(i) THEN SharedRegion(i) ELSE None,
                         CellOf("mni.region", i), CellOf("ind.region", i)>>)

C9_Witness ==
  /\ pc = "ready"
  /\ caught = "IndexError"
  /\ \E i, j \in 1..NumPairs :
       /\ i < j
       /\ AbsentBeforeWholeBrain(i)
       /\ Usable(SharedRegion(i))
       /\ Usable(CellOf("mni.region", i))
       /\ All(locations).list[i] = Str(Trim(SharedRegion(i).val))
       /\ FailsAt(j)
       /\ Usable(CellOf("mni.region", j))
       /\ All(locations).list[j] = Str(Trim(CellOf("mni.region", j).val))

LabeledAB(i) ==
  reader.pairs.label[i].tag = "str" /\ HasDash(reader.pairs.label[i].val)

FromLaterColumns(i) ==
  FirstUsable(<<CellOf("mni.region", i), CellOf("ind.region", i)>>)

\* C10 as stated: a pair without usable stein.region and das.region value,
\* labeled 'a-b', gets the usable region a and b share in the whole-brain
\* map; with only one of them a key, or two different regions, it is
\* resolved by mni.region / ind.region or stays absent.
C10_CoLocalized ==
  pc = "ready" =>
    \A i \in 1..NumPairs :
      (AbsentBeforeWholeBrain(i) /\ LabeledAB(i)) =>
        IF Usable(SharedRegion(i))
        THEN All(locations).list[i] = Str(Trim(SharedRegion(i).val))
        ELSE All(locations).list[i] = FromLaterColumns(i)

\* C10 amended: the same, for the pairs the whole-brain step gets to: the
\* localization and the second load of 'pairs' succeed, the reloaded labels
\* are as many as the pairs, and no still absent pair before i has a label
\* that raises.  A pair the step does not get to is resolved by mni.region
\* / ind.region or stays absent.
C10_CoLocalizedWhenReached ==
  pc = "ready" =>
    \A i \in 1..NumPairs :
      (AbsentBeforeWholeBrain(i) /\ LabeledAB(i)) =>
        IF Reached(i) /\ Usable(SharedRegion(i))
        THEN All(locations).list[i] = Str(Trim(SharedRegion(i).val))
        ELSE All(locations).list[i] = FromLaterColumns(i)

C10_Witness ==
  /\ pc = "ready"
  /\ \E i, j \in 1..NumPairs :
       /\ AbsentBeforeWholeBrain(i) /\ LabeledAB(i) /\ Reached(i)
       /\ Usable(SharedRegion(i))
       /\ Usable(CellOf("mni.region", i))
       /\ All(locations).list[i] = Str(Trim(SharedRegion(i).val))
       /\ AbsentBeforeWholeBrain(j) /\ LabeledAB(j) /\ Reached(j)
       /\ ~BothContactsKnown(j)
       /\ ContactA(reader.pairs.label[j].val) \in DOMAIN WholeBrainOf(reader)
       /\ All(locations).list[j] = FromLaterColumns(j)

(***************************************************************************)
(* C4, C5                                                                  *)
(***************************************************************************)
Left(a) == <<"L","e","f","t"," ">> \o a

Right(a) == <<"R","i","g","h","t"," ">> \o a

\* the aliases of a `regions` argument, a single string being one alias
Aliases(arg) == {arg.val[k] : k \in 1..Len(arg.val)}

IsAlias(loc, A) == \E a \in A : Norm(loc.val) = Norm(a)

IsLeftOf(loc, A) == \E a \in A : Norm(loc.val) = Norm(Left(a))

IsRightOf(loc, A) == \E a \in A : Norm(loc.val) = Norm(Right(a))

Answered(op) ==
  /\ pc = "ready"
  /\ result.call.op = op
  /\ result.call.arg.kind # "None"
  /\ DOMAIN result.value = 1..NumPairs

\* C4: Regions(A)[i] is true exactly when the location of pair i is a
\* string equal, case and outer whitespace ignored, to a, 'Left '+a or
\* 'Right '+a for an alias a of A; false for an absent location and for
\* every other string.
C4_RegionsSideInsensitive ==
  (result.call.op = "Regions" /\ result.call.arg.kind # "None") =>
    /\ Answered("Regions")
    /\ \A i \in 1..NumPairs :
         LET A == Aliases(result.call.arg)
             loc == locations[i]
         IN result.value[i] <=>
              /\ loc.tag = "str"
              /\ IsAlias(loc, A) \/ IsLeftOf(loc, A) \/ IsRightOf(loc, A)

C4_Witness ==
  /\ Answered("Regions")
  /\ \E i, j \in 1..NumPairs :
       /\ result.value[i]
       /\ IsLeftOf(locations[i], Aliases(result.call.arg))
       /\ locations[i].val \notin {Left(a) : a \in Aliases(result.call.arg)}
       /\ ~result.value[j]
       /\ locations[j].tag = "str"
       /\ \E a \in Aliases(result.call.arg) :
            a # <<>> /\ SubSeq(locations[j].val, 1, Len(a)) = a

\* C5 as stated: LeftRegions(A)[i] only when the location is 'Left '+a for
\* an alias a of A, and false whenever the location is an alias a of A or
\* 'Right '+a; the same for RightRegions with the sides exchanged.
C5_SideExclusive ==
  /\ Answered("LeftRegions") =>
       \A i \in 1..NumPairs :
         LET A == Aliases(result.call.arg)
             loc == locations[i]
         IN /\ result.value[i] => (loc.tag = "str" /\ IsLeftOf(loc, A))
            /\ (loc.tag = "str" /\ (IsAlias(loc, A) \/ IsRightOf(loc, A)))
                 => ~result.value[i]
  /\ Answered("RightRegions") =>
       \A i \in 1..NumPairs :
         LET A == Aliases(result.call.arg)
             loc == locations[i]
         IN /\ result.value[i] => (loc.tag = "str" /\ IsRightOf(loc, A))
            /\ (loc.tag = "str" /\ (IsAlias(loc, A) \/ IsLeftOf(loc, A)))
                 => ~result.value[i]

\* C5 amended: LeftRegions(A)[i] is true exactly when the location is
\* 'Left '+a for an alias a of A (case and outer whitespace ignored), so it
\* is false for a location that is an alias a or 'Right '+a unless that
\* location is also 'Left '+a' for another alias a' of A; the same for
\* RightRegions with the sides exchanged; and a pair in either mask is in
\* Regions(A).
C5_SideExclusiveUnlessAlsoPrefixed ==
  /\ (result.call.op = "LeftRegions" => Answered("LeftRegions"))
  /\ (result.call.op = "RightRegions" => Answered("RightRegions"))
  /\ Answered("LeftRegions") =>
       \A i \in 1..NumPairs :
         /\ result.value[i] <=>
              /\ locations[i].tag = "str"
              /\ IsLeftOf(locations[i], Aliases(result.call.arg))
         /\ result.value[i] => Regions(result.call.arg, locations)[i]
  /\ Answered("RightRegions") =>
       \A i \in 1..NumPairs :
         /\ result.value[i] <=>
              /\ locations[i].tag = "str"
              /\ IsRightOf(locations[i], Aliases(result.call.arg))
         /\ result.value[i] => Regions(result.call.arg, locations)[i]

C5_Witness ==
  /\ Answered("LeftRegions")
  /\ \E i, j \in 1..NumPairs :
       LET A == Aliases(result.call.arg) IN
       /\ result.value[i]
       /\ IsLeftOf(locations[i], A)
       /\ IsAlias(locations[i], A)
       /\ ~result.value[j]
       /\ locations[j].tag = "str"
       /\ IsAlias(locations[j], A) \/ IsRightOf(locations[j], A)

(***************************************************************************)
(* C6                                                                      *)
(***************************************************************************)
\* what the sources hold for pair i, trimmed
SaidOfPair(i) ==
  {Str(Trim(c.val)) :
     c \in {v \in {CellOf(col, i) : col \in Columns} \cup {SharedRegion(i)} :
              v.tag = "str"}}

\* C6: on an instance built over N pairs, All(), Matching(x), Regions(x),
\* LeftRegions(x), RightRegions(x) and the named accessors return N elements,
\* element i being about pair i: All()[i] is absent or what a source holds
\* for pair i, a mask is true at i only for a location of pair i that
\* matches, and Regions(None) is true everywhere; also when the whole-brain
\* step fails or the reloaded labels are of another length.
C6_LengthAligned ==
  /\ pc = "ready" => Len(locations) = NumPairs
  /\ result.call.op # "" =>
       /\ pc = "ready"
       /\ DOMAIN result.value = 1..NumPairs
       /\ Len(result.value) = NumPairs
  /\ (result.call.op = "Regions" /\ result.call.arg.kind = "None") =>
       \A i \in 1..NumPairs : result.value[i] = TRUE
  /\ result.call.op = "All" =>
       \A i \in 1..NumPairs :
         result.value[i] = None \/ result.value[i] \in SaidOfPair(i)
  /\ Answered("Matching") =>
       \A i \in 1..NumPairs :
         result.value[i] <=>
           /\ locations[i] \in SaidOfPair(i)
           /\ IsAlias(locations[i], Aliases(result.call.arg))

C6_Witness ==
  /\ pc = "ready"
  /\ caught = "label mismatch"
  /\ NumPairs >= 2
  /\ Answered("Matching")
  /\ \E i, j \in 1..NumPairs : result.value[i] /\ ~result.value[j]

(***************************************************************************)
(* C8                                                                      *)
(***************************************************************************)
Within(small, big) == Range(taxonomy[small]) \subseteq Range(taxonomy[big])

Sides == {"", "Left", "Right"}

\* the answer of the accessor of group small lies within that of group big
MaskWithin(small, big) ==
  \A side \in Sides :
    (pc = "ready" /\ result.call.op = side \o small) =>
      \A i \in 1..NumPairs :
        result.value[i] => Named(side, big, taxonomy, locations)[i]

\* C8: the hippocampus aliases are MTL aliases and temporal aliases, the
\* MTL and LTC aliases are temporal aliases; so Hippocampus()[i] implies
\* MTL()[i], MTL()[i] and LTC()[i] imply Temporal()[i], and the same for the
\* Left and Right accessors.
C8_GroupSupersets ==
  /\ Within("hippocampus", "mtl")
  /\ Within("hippocampus", "temporal")
  /\ Within("mtl", "temporal")
  /\ Within("ltc", "temporal")
  /\ MaskWithin("hippocampus", "mtl")
  /\ MaskWithin("hippocampus", "temporal")
  /\ MaskWithin("mtl", "temporal")
  /\ MaskWithin("ltc", "temporal")

C8_Witness ==
  /\ pc = "ready"
  /\ result.call.op = "Left" \o "hippocampus"
  /\ \E i, j \in 1..NumPairs :
       /\ result.value[i]
       /\ Named("Left", "mtl", taxonomy, locations)[i]
       /\ Named("Left", "temporal", taxonomy, locations)[i]
       /\ ~result.value[j]
       /\ Named("Left", "mtl", taxonomy, locations)[j]

(***************************************************************************)
(* C7                                                                      *)
(***************************************************************************)
SameCall(c, d) ==
  c.op = d.op /\ c.arg.kind = d.arg.kind /\ c.arg.val = d.arg.val

QueriesLeaveStateAlone ==
  pc = "ready" =>
    /\ pc' = "ready"
    /\ locations' = locations
    /\ taxonomy' = taxonomy
    /\ loads' = loads
    /\ pairs' = pairs
    /\ reader' = reader

SameAnswer ==
  (noted.call.op # "" /\ SameCall(result.call, noted.call)) =>
    result.value = noted.value

\* C7: once the instance is built, no call of All, Matching, Regions,
\* LeftRegions, RightRegions or a named accessor, and no write of the caller
\* into a list All() returned, changes the locations or the alias lists or
\* loads anything; a call repeated with the same argument returns what it
\* returned before, whatever was called or written in between.
C7_QueriesPure == []SameAnswer /\ [][QueriesLeaveStateAlone]_vars

C7_Witness ==
  /\ pc = "ready"
  /\ noted.call.op = "All"
  /\ ~noted.after_write
  /\ SameCall(result.call, noted.call)
  /\ result.after_write
  /\ result.value = noted.value
  /\ NumPairs >= 1

=============================================================================
